---- MODULE Spec2Model ----
(***************************************************************************)
(* Model of update_rhp_unit_paths.py: discovery of the links between       *)
(* Rhapsody project files (RhpRpyx), their indexing (RhpIndex), the        *)
(* counting and writing of absolute -> relative replacements               *)
(* (RelativePathReplacementStrategy) and the driver (RhpLinksUpdater).     *)
(*                                                                         *)
(* Strings are sequences of atoms: the delimiters ">" and "<", the marker  *)
(* "_rpy", the extension ".rpyx", the separator "/", "." and "..", and     *)
(* file or directory names.  A file's content is a sequence of lines.      *)
(* Paths follow the posixpath rules; the file system is case-insensitive   *)
(* (a file is identified by its lower-cased absolute path, as the index    *)
(* of the program assumes).                                                *)
(***************************************************************************)
EXTENDS Integers, Sequences, FiniteSets, TLC

\* ------------------------------------------------------------------ bounds
MaxTokens == 2      \* reference tokens per file in the initial file set
MaxCap    == 2      \* largest maxFileToUpdate tried
MaxDepth  == 1      \* largest non-negative maxDepth tried

\* ------------------------------------------------------- string primitives
None == 0           \* the absent value of dict.get

RECURSIVE LStrip(_, _)
LStrip(s, c) == IF s # <<>> /\ Head(s) = c THEN LStrip(Tail(s), c) ELSE s

RECURSIVE RStrip(_, _)
RStrip(s, c) ==
    IF s # <<>> /\ s[Len(s)] = c THEN RStrip(SubSeq(s, 1, Len(s) - 1), c) ELSE s

\* str.replace(a, "", 1): drop the first occurrence of atom a
RECURSIVE RemoveFirst(_, _)
RemoveFirst(s, a) ==
    IF s = <<>> THEN <<>>
    ELSE IF Head(s) = a THEN Tail(s)
    ELSE <<Head(s)>> \o RemoveFirst(Tail(s), a)

\* str.replace(old, new): every non-overlapping occurrence, left to right
RECURSIVE ReplaceAll(_, _, _)
ReplaceAll(s, old, new) ==
    IF Len(s) < Len(old) \/ old = <<>> THEN s
    ELSE IF SubSeq(s, 1, Len(old)) = old
         THEN new \o ReplaceAll(SubSeq(s, Len(old) + 1, Len(s)), old, new)
         ELSE <<Head(s)>> \o ReplaceAll(Tail(s), old, new)

\* the upper-case atoms and their lower-case forms
LowerCase == [u \in {"A", "B", "S", "X"} |->
                IF u = "A" THEN "a" ELSE IF u = "B" THEN "b"
                ELSE IF u = "S" THEN "s" ELSE "x"]

LowerAtom(a) == IF a \in DOMAIN LowerCase THEN LowerCase[a] ELSE a

\* str.lower
lower(s) == [i \in 1..Len(s) |-> LowerAtom(s[i])]

\* ---------------------------------------------------------------- os.path
isabs(p) == p # <<>> /\ Head(p) = "/"

\* p.split('/'): the components between the separators
RECURSIVE Split(_, _)
Split(p, cur) ==
    IF p = <<>> THEN <<cur>>
    ELSE IF Head(p) = "/" THEN <<cur>> \o Split(Tail(p), <<>>)
    ELSE Split(Tail(p), Append(cur, Head(p)))

\* '/'.join(comps)
RECURSIVE JoinComps(_)
JoinComps(cs) ==
    IF cs = <<>> THEN <<>>
    ELSE IF Len(cs) = 1 THEN cs[1]
    ELSE cs[1] \o <<"/">> \o JoinComps(Tail(cs))

\* the component loop of posixpath.normpath
RECURSIVE NormComps(_, _, _)
NormComps(cs, abs, acc) ==
    IF cs = <<>> THEN acc
    ELSE LET c == Head(cs) IN
         IF c = <<>> \/ c = <<".">> THEN NormComps(Tail(cs), abs, acc)
         ELSE IF c # <<"..">> \/ (~abs /\ acc = <<>>)
                 \/ (acc # <<>> /\ acc[Len(acc)] = <<"..">>)
              THEN NormComps(Tail(cs), abs, Append(acc, c))
         ELSE IF acc # <<>>
              THEN NormComps(Tail(cs), abs, SubSeq(acc, 1, Len(acc) - 1))
         ELSE NormComps(Tail(cs), abs, acc)

normpath(p) ==
    IF p = <<>> THEN <<".">>
    ELSE LET abs  == isabs(p)
             body == JoinComps(NormComps(Split(p, <<>>), abs, <<>>))
         IN  IF abs THEN <<"/">> \o body
             ELSE IF body = <<>> THEN <<".">> ELSE body

\* os.path.join(a, b)
join(a, b) ==
    IF isabs(b) THEN b
    ELSE IF a = <<>> \/ a[Len(a)] = "/" THEN a \o b
    ELSE a \o <<"/">> \o b

\* the working directory of the process
cwd == <<"/">>

abspath(p) == normpath(IF isabs(p) THEN p ELSE join(cwd, p))

\* the non-empty components of an absolute path
PathList(p) == SelectSeq(Split(abspath(p), <<>>), LAMBDA c : c # <<>>)

RECURSIVE CommonLen(_, _)
CommonLen(a, b) ==
    IF a = <<>> \/ b = <<>> \/ Head(a) # Head(b) THEN 0
    ELSE 1 + CommonLen(Tail(a), Tail(b))

\* os.path.relpath(path, start)
relpath(path, start) ==
    LET sl  == PathList(start)
        pl  == PathList(path)
        i   == CommonLen(sl, pl)
        rel == [n \in 1..(Len(sl) - i) |-> <<"..">>] \o SubSeq(pl, i + 1, Len(pl))
    IN  IF rel = <<>> THEN <<".">> ELSE JoinComps(rel)

\* ------------------------------------------------------------------- dicts
\* a dict is a sequence of [k, v] entries in insertion order
RECURSIVE DictHas(_, _)
DictHas(d, k) == d # <<>> /\ (Head(d).k = k \/ DictHas(Tail(d), k))

RECURSIVE DictGet(_, _)
DictGet(d, k) ==
    IF d = <<>> THEN None
    ELSE IF Head(d).k = k THEN Head(d).v ELSE DictGet(Tail(d), k)

DictPut(d, k, v) ==
    IF DictHas(d, k)
    THEN [i \in 1..Len(d) |-> IF d[i].k = k THEN [k |-> k, v |-> v] ELSE d[i]]
    ELSE Append(d, [k |-> k, v |-> v])

\* ----------------------------------------------------------------- RhpRpyx
\* os.path.exists on the file system dsk
Exists(dsk, p) == lower(p) \in DOMAIN dsk /\ dsk[lower(p)].exists

\* RhpRpyx.__init__
RhpRpyx(path, dsk) ==
    CHOOSE o \in {[absPath          |-> absPath,
                   exists           |-> Exists(dsk, absPath),
                   linksDico        |-> <<>>,
                   replacementsDico |-> <<>>,
                   loaded           |-> FALSE,
                   fileContent      |-> <<>>] : absPath \in {abspath(path)}} : TRUE

matchToRpyx(match) ==
    RemoveFirst(RStrip(LStrip(match, ">"), "<"), "_rpy") \o <<".rpyx">>

rpyxToMatch(rpyx) == <<">">> \o RemoveFirst(rpyx, ".rpyx") \o <<"_rpy", "<">>

joinRelativePath(absPath, relativePath) == normpath(join(absPath, relativePath))

\* the match of the pattern >.*_rpy< in one line: from the first ">" that
\* is followed by a "_rpy<" to the last "_rpy<" of the line
LineMatch(line) ==
    LET ends   == {j \in 1..(Len(line) - 1) : line[j] = "_rpy" /\ line[j + 1] = "<"}
        starts == {i \in 1..Len(line) : line[i] = ">" /\ \E j \in ends : j > i}
    IN  IF starts = {} THEN <<>>
        ELSE LET i == CHOOSE x \in starts : \A y \in starts : x <= y
                 j == CHOOSE x \in ends : \A y \in ends : y <= x
             IN  <<SubSeq(line, i, j + 1)>>

\* re.findall( ">.*_rpy<", fileContent )
RECURSIVE findall(_)
findall(content) ==
    IF content = <<>> THEN <<>>
    ELSE LineMatch(Head(content)) \o findall(Tail(content))

\* the keys and the paths of the dict built by getLinkedRpyx, in order
RECURSIVE LinkedPaths(_, _, _)
LinkedPaths(absPath, matchs, acc) ==
    IF matchs = <<>> THEN acc
    ELSE LET rhpLink == matchToRpyx(Head(matchs))
             path    == IF isabs(rhpLink) THEN rhpLink
                        ELSE joinRelativePath(absPath, rhpLink)
         IN  LinkedPaths(absPath, Tail(matchs), DictPut(acc, rhpLink, path))

getLinkedRpyx(absPath, content) == LinkedPaths(absPath, findall(content), <<>>)

\* RhpRpyx.prepareReplacements
RECURSIVE ReplacementsOf(_, _, _)
ReplacementsOf(absPath, links, acc) ==
    IF links = <<>> THEN acc
    ELSE LET rhpLink == Head(links).k IN
         ReplacementsOf(absPath, Tail(links),
             IF isabs(rhpLink)
             THEN DictPut(acc, rpyxToMatch(rhpLink),
                          rpyxToMatch(relpath(rhpLink, absPath)))
             ELSE acc)

prepareReplacements(absPath, linksDico) == ReplacementsOf(absPath, linksDico, <<>>)

\* the content written by RhpRpyx.doReplacements
RECURSIVE NewContent(_, _)
NewContent(content, repl) ==
    IF repl = <<>> THEN content
    ELSE NewContent([i \in 1..Len(content) |->
                        ReplaceAll(content[i], Head(repl).k, Head(repl).v)],
                    Tail(repl))

\* the level of one line of RhpRpyx.trace
TraceLevel(targetExists, hasReplacement) ==
    IF ~targetExists THEN "WARNING"
    ELSE IF hasReplacement THEN "INFO" ELSE "DEBUG"

\* RhpRpyx.trace: one record per link of object f
TraceOf(f, o, hp) ==
    [i \in 1..Len(o.linksDico) |->
        LET replacedStr == rpyxToMatch(o.linksDico[i].k) IN
        [file   |-> f,
         link   |-> replacedStr,
         target |-> o.linksDico[i].v,
         level  |-> TraceLevel(hp[o.linksDico[i].v].exists,
                               DictHas(o.replacementsDico, replacedStr))]]

\* ---------------------------------------------------------------- RhpIndex
getIndexedRhpyx(idx, absolutePath) == DictGet(idx, lower(absolutePath))

\* variant: the entry is stored under the path as it is spelled
addIndexedRhpyx_CaseSensitive(idx, absPath, id) == DictPut(idx, absPath, id)

\* addIndexedRhpyx stores the instance unless its path has one already
addIndexedRhpyx(idx, absPath, id) ==
    IF DictGet(idx, lower(absPath)) = None
    THEN DictPut(idx, lower(absPath), id)
    ELSE idx

\* ------------------------------------------ RelativePathReplacementStrategy
NewPolicy(maxFileToUpdate) ==
    [linkCount        |-> 0,
     replacementCount |-> 0,
     fileUpdatedCount |-> 0,
     updatedFileCount |-> 0,
     maxFileToUpdate  |-> maxFileToUpdate]

\* variant: nothing is tallied in a dry run
prepareAndCountReplacements_DryRunSilent(pol, nbReplacement, nbLinks) ==
    IF pol.maxFileToUpdate = 0 THEN pol
    ELSE [pol EXCEPT !.replacementCount = @ + nbReplacement,
                     !.linkCount        = @ + nbLinks,
                     !.fileUpdatedCount = IF nbReplacement >= 1 THEN @ + 1 ELSE @]

prepareAndCountReplacements(pol, nbReplacement, nbLinks) ==
    [pol EXCEPT !.replacementCount = @ + nbReplacement,
                !.linkCount        = @ + nbLinks,
                !.fileUpdatedCount = IF nbReplacement >= 1 THEN @ + 1 ELSE @]

\* the early returns of doReplacements
HasWork(o) == o.exists /\ Len(o.replacementsDico) # 0

\* variant: the cap test is off by one
CapAllows_OffByOne(pol) == pol.updatedFileCount <= pol.maxFileToUpdate

\* variant: the cap test is written the other way round
CapAllows_Reversed(pol) == pol.updatedFileCount > pol.maxFileToUpdate

\* the test that guards the call of rhpRpyx.doReplacements
CapAllows(pol) == pol.updatedFileCount < pol.maxFileToUpdate

\* variant: the early returns come after the counter is incremented
PolicyAfterApply_CountsEveryFile(pol, o) ==
    [pol EXCEPT !.updatedFileCount = @ + 1]

\* the policy after doReplacements on object o
PolicyAfterApply(pol, o) ==
    IF HasWork(o) THEN [pol EXCEPT !.updatedFileCount = @ + 1] ELSE pol

\* ---------------------------------------------------- RhpLinksUpdater parts
\* variant: the link always points at the instance just constructed
LinkTarget_Candidate(alreadyIndexedRpyx, linkedRpyx) == linkedRpyx

\* alreadyIndexedRpyx or linkedRpyx
LinkTarget(alreadyIndexedRpyx, linkedRpyx) ==
    IF alreadyIndexedRpyx # None THEN alreadyIndexedRpyx ELSE linkedRpyx

\* variant: missing files are searched too
ShouldQueue_Always(o) == TRUE

\* whether a freshly indexed file is appended to listNewRpyxToSearchLinks
ShouldQueue(o) == o.exists

\* the loop of searchLinks over linkedRpyxDico
RECURSIVE IndexLoop(_, _, _, _, _)
IndexLoop(linked, hp, idx, links, new) ==
    IF linked = <<>> THEN [index |-> idx, links |-> links, new |-> new]
    ELSE LET inFileRhpxLink == Head(linked).k
             linkedRpyx     == Head(linked).v
             already        == getIndexedRhpyx(idx, hp[linkedRpyx].absPath)
         IN  IndexLoop(Tail(linked), hp,
                 IF already = None
                 THEN addIndexedRhpyx(idx, hp[linkedRpyx].absPath, linkedRpyx)
                 ELSE idx,
                 DictPut(links, inFileRhpxLink, LinkTarget(already, linkedRpyx)),
                 IF already = None /\ ShouldQueue(hp[linkedRpyx])
                 THEN Append(new, linkedRpyx) ELSE new)

\* the frames of the recursion that still have a file to search
LiveFrames(s) == SelectSeq(s, LAMBDA fr : fr.todo # <<>>)

\* ------------------------------------------------------------ the file set
\* the files of the project, by their lower-cased absolute path
PA == <<"/", "a", ".rpyx">>
PB == <<"/", "b", ".rpyx">>
PX == <<"/", "s", "/", "x", ".rpyx">>
Ids == {PA, PB, PX}

\* reference tokens: absolute to a, to b (written B), to s/x; relative ../b
TA == <<">", "/", "a", "_rpy", "<">>
TB == <<">", "/", "B", "_rpy", "<">>
TX == <<">", "/", "s", "/", "x", "_rpy", "<">>
TR == <<">", "..", "/", "b", "_rpy", "<">>

\* the tokens a file of the initial file set may hold, in text order
Vocabulary(p) ==
    IF p = PA THEN <<TB, TX, TR>>
    ELSE IF p = PB THEN <<TA, TR>>
    ELSE <<TA>>

\* the elements of voc at the positions of S, in order
RECURSIVE Pick(_, _, _)
Pick(voc, S, i) ==
    IF i > Len(voc) THEN <<>>
    ELSE (IF i \in S THEN <<voc[i]>> ELSE <<>>) \o Pick(voc, S, i + 1)

\* a file: missing, or present with one token per line
FileStates(p) ==
    {[exists |-> FALSE, content |-> <<>>]} \cup
    {[exists |-> TRUE, content |-> Pick(Vocabulary(p), S, 1)] :
        S \in {T \in SUBSET (1..Len(Vocabulary(p))) : Cardinality(T) <= MaxTokens}}

FileSets == {d \in [Ids -> UNION {FileStates(p) : p \in Ids}] :
                \A p \in Ids : d[p] \in FileStates(p)}

SeedPaths == {PA, PB}
\* rpyxPathToProcessList: a non-empty list of distinct paths
SeedLists == {l \in UNION {[1..n -> SeedPaths] : n \in 1..Cardinality(SeedPaths)} :
                 \A i, j \in 1..Len(l) : l[i] = l[j] => i = j}
Caps      == 0..MaxCap
Depths    == {-1} \cup (0..MaxDepth)

\* ------------------------------------------------------------------- state
VARIABLES
    disk,       \* the file system: lower-cased path -> [exists, content]
    disk0,      \* the file set before the first launch
    seeds,      \* rpyxPathToProcessList
    maxDepth,   \* the maxDepth given to searchLinks by update
    policy,     \* the RelativePathReplacementStrategy
    objs,       \* the RhpRpyx instances, by identity 1..Len(objs)
    index,      \* RhpIndex.indexByAbsPath
    stack,      \* the pending calls of searchLinks: frames [todo, depth]
    seedIdx,    \* position of update in rpyxPathToProcessList
    applyIdx,   \* position of update in indexByAbsPath.values()
    status,     \* "running", or the exception that ended the process
    events,     \* the calls of getLinkedRpyx and of RhpRpyx.doReplacements
    traced,     \* the lines logged by RhpRpyx.trace
    mode,       \* the launch: "first", "again" (on the files the first
                \* launch left) or "restored" (on the restored disk0)
    hist        \* the summary of the finished first launch

vars == <<disk, disk0, seeds, maxDepth, policy, objs, index, stack, seedIdx,
          applyIdx, status, events, traced, mode, hist>>

Init ==
    /\ disk \in FileSets
    /\ disk0 = disk
    /\ seeds \in SeedLists
    /\ maxDepth \in Depths
    /\ policy \in {NewPolicy(c) : c \in Caps}
    /\ objs = <<>>
    /\ index = <<>>
    /\ stack = <<>>
    /\ seedIdx = 1
    /\ applyIdx = 1
    /\ status = "running"
    /\ events = <<>>
    /\ traced = <<>>
    /\ mode = "first"
    /\ hist = <<>>

\* ------------------------------------------------------- control positions
InSeeds  == status = "running" /\ stack = <<>> /\ seedIdx <= Len(seeds)
InSearch == status = "running" /\ stack # <<>>
\* variant: the apply loop sits inside the loop over the seeds
InApply_InsideSeedLoop ==
    status = "running" /\ stack = <<>> /\ seedIdx > 1 /\ applyIdx <= Len(index)

InApply  == status = "running" /\ stack = <<>> /\ seedIdx > Len(seeds)
               /\ applyIdx <= Len(index)
Finished == status = "running" /\ stack = <<>> /\ seedIdx > Len(seeds)
               /\ applyIdx > Len(index)

\* ------------------------------------------------------------------ update
\* one iteration of the loop over rpyxPathToProcessList, up to the call
UpdateSeed ==
    /\ InSeeds
    /\ \E rhpRpyx \in {RhpRpyx(seeds[seedIdx], disk)} :
       LET id == Len(objs) + 1
       IN  /\ objs' = Append(objs, rhpRpyx)
           /\ stack' = IF rhpRpyx.exists
                       THEN <<[todo |-> <<id>>, depth |-> maxDepth]>>
                       ELSE <<>>
    /\ seedIdx' = seedIdx + 1
    /\ UNCHANGED <<disk, disk0, seeds, maxDepth, policy, index, applyIdx,
                   status, events, traced, mode, hist>>

\* variant: the content is read into a local variable
ReadContent_NotKept(o, content) == o

\* self.fileContent = openRpyx.read()
ReadContent(o, content) ==
    [o EXCEPT !.loaded = TRUE, !.fileContent = content]

\* variant: the depth handed to the recursive call never goes below 0
NextDepth_Clamped(d) == IF d <= 0 THEN 0 ELSE d - 1

\* the maxDepth handed to the recursive call of searchLinks
NextDepth(d) == d - 1

\* searchLinks on the next file of the innermost pending call
SearchLinks ==
    /\ InSearch
    /\ LET top     == Head(stack)
           f       == Head(top.todo)
           o       == objs[f]
       IN
       /\ Exists(disk, o.absPath)
       /\ LET content == disk[lower(o.absPath)].content
              paths   == getLinkedRpyx(o.absPath, content)
              base    == Len(objs)
              linked  == [i \in 1..Len(paths) |-> [k |-> paths[i].k, v |-> base + i]]
              hp      == objs \o [i \in 1..Len(paths) |-> RhpRpyx(paths[i].v, disk)]
              r       == IndexLoop(linked, hp, index, o.linksDico, <<>>)
              repl    == prepareReplacements(o.absPath, r.links)
              o2      == [ReadContent(o, content) EXCEPT
                                   !.linksDico = r.links,
                                   !.replacementsDico = repl]
              hp2     == [hp EXCEPT ![f] = o2]
              rest    == <<[top EXCEPT !.todo = Tail(@)]>> \o Tail(stack)
          IN
          /\ objs' = hp2
          /\ index' = r.index
          /\ policy' = prepareAndCountReplacements(policy, Len(repl), Len(r.links))
          /\ traced' = traced \o TraceOf(f, o2, hp2)
          /\ stack' = LiveFrames(
                        IF top.depth # 0
                        THEN <<[todo |-> r.new, depth |-> NextDepth(top.depth)]>> \o rest
                        ELSE rest)
          /\ events' = Append(events, [op |-> "discover", obj |-> f,
                                       id |-> lower(o.absPath), ok |-> TRUE])
    /\ UNCHANGED <<disk, disk0, seeds, maxDepth, seedIdx, applyIdx, status,
                   mode, hist>>

\* variant: the IOError is logged and swallowed
RaiseIOError_Swallowed(kind) == "running"

\* what the process becomes when an IOError is raised
RaiseIOError(kind) == kind

\* getLinkedRpyx cannot open the file: the IOError leaves searchLinks
SearchLinksReadFailure ==
    /\ InSearch
    /\ LET f == Head(Head(stack).todo) IN
       events' = Append(events, [op |-> "discover", obj |-> f,
                                 id |-> lower(objs[f].absPath), ok |-> FALSE])
    /\ status' = RaiseIOError("ReadFailure")
    /\ UNCHANGED <<disk, disk0, seeds, maxDepth, policy, objs, index, stack,
                   seedIdx, applyIdx, traced, mode, hist>>

\* variant: the loop over the index does not advance
NextPos_Stuck(i) == i

\* the position after one iteration of the loop over the index
NextPos(i) == i + 1

\* one iteration of the loop over indexByAbsPath.values()
DoReplacements ==
    /\ InApply
    /\ LET f == index[applyIdx].v
           o == objs[f]
           w == HasWork(o) /\ CapAllows(policy)
       IN
       /\ IF w /\ ~o.loaded
          THEN \* self.fileContent was never assigned
               /\ status' = "AttributeError"
               /\ UNCHANGED <<disk, events, applyIdx, policy>>
          ELSE /\ status' = status
               /\ policy' = PolicyAfterApply(policy, o)
               /\ applyIdx' = NextPos(applyIdx)
               /\ disk' = IF w
                          THEN [disk EXCEPT ![lower(o.absPath)].content =
                                    NewContent(o.fileContent, o.replacementsDico)]
                          ELSE disk
               /\ events' = IF w
                            THEN Append(events, [op |-> "write", obj |-> f,
                                         id |-> lower(o.absPath), ok |-> TRUE])
                            ELSE events
    /\ UNCHANGED <<disk0, seeds, maxDepth, objs, index, stack, seedIdx,
                   traced, mode, hist>>

\* variant: update catches the IOError and goes on with the next file
DoReplacementsWriteFailure_Continue ==
    /\ InApply
    /\ LET f == index[applyIdx].v
           o == objs[f]
       IN
       /\ HasWork(o) /\ CapAllows(policy) /\ o.loaded
       /\ events' = Append(events, [op |-> "write", obj |-> f,
                                    id |-> lower(o.absPath), ok |-> FALSE])
    /\ applyIdx' = applyIdx + 1
    /\ UNCHANGED <<disk, disk0, seeds, maxDepth, policy, objs, index, stack,
                   seedIdx, status, traced, mode, hist>>

\* RhpRpyx.doReplacements cannot write the file: the IOError leaves update
DoReplacementsWriteFailure ==
    /\ InApply
    /\ LET f == index[applyIdx].v
           o == objs[f]
       IN
       /\ HasWork(o) /\ CapAllows(policy) /\ o.loaded
       /\ events' = Append(events, [op |-> "write", obj |-> f,
                                    id |-> lower(o.absPath), ok |-> FALSE])
    /\ status' = RaiseIOError("WriteFailure")
    /\ UNCHANGED <<disk, disk0, seeds, maxDepth, policy, objs, index, stack,
                   seedIdx, applyIdx, traced, mode, hist>>

\* ---------------------------------------------------------------- launches
\* what is kept of a finished launch
Summary ==
    [policy  |-> policy, mode |-> mode,
     wrote   |-> {events[i].id : i \in {j \in 1..Len(events) :
                                         events[j].op = "write" /\ events[j].ok}},
     skipped |-> {[id   |-> index[k].k,
                   repl |-> objs[index[k].v].replacementsDico] :
                  k \in {n \in 1..Len(index) :
                     /\ objs[index[n].v].exists
                     /\ Len(objs[index[n].v].replacementsDico) # 0
                     /\ \A j \in 1..Len(events) :
                           ~(events[j].op = "write" /\ events[j].id = index[n].k)}}]

\* the second launch starts with an empty index and a new strategy
Launch(cap, m, dsk) ==
    /\ Finished
    /\ mode = "first"
    /\ hist' = Append(hist, Summary)
    /\ mode' = m
    /\ disk' = dsk
    /\ policy' = NewPolicy(cap)
    /\ objs' = <<>>
    /\ index' = <<>>
    /\ stack' = <<>>
    /\ seedIdx' = 1
    /\ applyIdx' = 1
    /\ events' = <<>>
    /\ traced' = <<>>
    /\ UNCHANGED <<disk0, seeds, maxDepth, status>>

\* the program is launched again, with the largest cap, on the files as the
\* first launch left them
Rerun == Launch(MaxCap, "again", disk)

\* the program is launched with the cap raised by one after the initial
\* file set is restored
RerunRestored ==
    \E cap \in {c \in Caps : c = policy.maxFileToUpdate + 1} :
        Launch(cap, "restored", disk0)

Next ==
    \/ UpdateSeed
    \/ SearchLinks
    \/ SearchLinksReadFailure
    \/ DoReplacements
    \/ DoReplacementsWriteFailure
    \/ Rerun
    \/ RerunRestored

Spec == Init /\ [][Next]_vars

\* the statements of the process: a sequential program keeps executing
Step ==
    \/ UpdateSeed
    \/ SearchLinksReadFailure
    \/ SearchLinks
    \/ DoReplacementsWriteFailure
    \/ DoReplacements

FairSpec == Init /\ [][Next]_vars /\ WF_vars(Step)

\* ------------------------------------------- one file and its references
\* more spellings of a reference: absolute to b in lower case, absolute to
\* a through a directory and back
TBL == <<">", "/", "b", "_rpy", "<">>
TN  == <<">", "/", "s", "/", "..", "/", "a", "_rpy", "<">>

\* the tokens the file may hold when getLinkedRpyx and prepareReplacements
\* are applied to one file: references to the other files and to itself
RoundTripVocabulary(p) ==
    IF p = PA THEN <<TA, TB, TX, TR, TN>>
    ELSE IF p = PB THEN <<TBL, TA, TX>>
    ELSE <<TX, TA, TB>>

\* file sets in which the file p holds references and the other files are
\* missing or hold none
RoundTripFileSets(p) ==
    {d \in [Ids -> UNION {{[exists |-> FALSE, content |-> <<>>]} \cup
                          {[exists |-> TRUE,
                            content |-> Pick(RoundTripVocabulary(q), S, 1)] :
                              S \in SUBSET (1..Len(RoundTripVocabulary(q)))} :
                          q \in Ids}] :
        /\ d[p].exists
        /\ \E S \in SUBSET (1..Len(RoundTripVocabulary(p))) :
              /\ Cardinality(S) <= MaxTokens
              /\ d[p].content = Pick(RoundTripVocabulary(p), S, 1)
        /\ \A q \in Ids \ {p} : d[q].content = <<>>}

\* update on a single seed with maxDepth 0: searchLinks is applied to the
\* seed alone
RoundTripInit ==
    /\ \E p \in Ids : seeds = <<p>> /\ disk \in RoundTripFileSets(p)
    /\ disk0 = disk
    /\ maxDepth = 0
    /\ policy = NewPolicy(0)
    /\ objs = <<>>
    /\ index = <<>>
    /\ stack = <<>>
    /\ seedIdx = 1
    /\ applyIdx = 1
    /\ status = "running"
    /\ events = <<>>
    /\ traced = <<>>
    /\ mode = "first"
    /\ hist = <<>>

RoundTripNext ==
    \/ UpdateSeed
    \/ SearchLinks

RoundTripSpec == RoundTripInit /\ [][RoundTripNext]_vars

\* ============================================================== properties
EventIdx(op)   == {i \in 1..Len(events) : events[i].op = op}
WriteEvents    == {i \in EventIdx("write") : events[i].ok}
Discoveries(p) == {i \in EventIdx("discover") : events[i].id = p}
Indexed        == {index[i].v : i \in 1..Len(index)}
Pending        == {f \in Indexed : HasWork(objs[f])}
Terminated     == Finished \/ status # "running"
LinkEnds(f)    == {objs[f].linksDico[i].v : i \in 1..Len(objs[f].linksDico)}
Tallies(pol)   == <<pol.linkCount, pol.replacementCount, pol.fileUpdatedCount>>

\* C1: in one run with write cap k, at most k files are written, however
\* many files have pending replacements; with k = 0 nothing is written.
C1_WritesWithinCap == Cardinality(WriteEvents) <= policy.maxFileToUpdate

C1_Witness ==
    /\ Finished
    /\ policy.maxFileToUpdate >= 1
    /\ Cardinality(Pending) > policy.maxFileToUpdate
    /\ Cardinality(WriteEvents) = policy.maxFileToUpdate

\* C2: during one run getLinkedRpyx is invoked at most once per lower-cased
\* absolute path, cycles through a seed included.
C2_OneDiscoveryPerFile == \A p \in Ids : Cardinality(Discoveries(p)) <= 1

\* C3: every launch terminates, whatever the depth budget and the cycles of
\* the reference graph: the process always reaches the end of update (or
\* the exception that ends it).
C3_RunTerminates == []<>Terminated

C3_Witness ==
    /\ Finished
    /\ maxDepth = -1
    /\ \E f, g \in 1..Len(objs) :
          /\ objs[f].loaded /\ objs[g].loaded
          /\ \E t \in LinkEnds(f) : lower(objs[t].absPath) = lower(objs[g].absPath)
          /\ \E t \in LinkEnds(g) : lower(objs[t].absPath) = lower(objs[f].absPath)

\* C4: every target stored in a link map is the instance the index holds
\* for the target's lower-cased absolute path.
C4_LinksAreCanonical ==
    \A f \in 1..Len(objs) : \A t \in LinkEnds(f) :
        getIndexedRhpyx(index, objs[t].absPath) = t

\* two tokens of one file, spelled in different cases, share their instance
C4_Witness ==
    \E f \in 1..Len(objs) : \E i, j \in 1..Len(objs[f].linksDico) :
        LET li == objs[f].linksDico[i]
            lj == objs[f].linksDico[j]
        IN  /\ li.v = lj.v
            /\ isabs(li.k) /\ ~isabs(lj.k)
            /\ abspath(li.k) # joinRelativePath(objs[f].absPath, lj.k)

\* C5: a second launch on the files left by a launch whose cap was not
\* reached computes no replacement and writes no file.
C5_SecondRunIdle ==
    (Finished /\ mode = "again"
        /\ hist[Len(hist)].policy.fileUpdatedCount
              <= hist[Len(hist)].policy.maxFileToUpdate
        /\ hist[Len(hist)].policy.updatedFileCount
              <= hist[Len(hist)].policy.maxFileToUpdate)
    => (policy.replacementCount = 0 /\ WriteEvents = {})

\* C6: after a run on the initial file set whose cap is at least the number
\* of files with replacements, every discovered existing file holding an
\* absolute reference (seeds included) has been rewritten, and the files
\* without replacement are unchanged.
C6_AllPendingRewritten ==
    (Finished /\ mode # "again"
        /\ policy.fileUpdatedCount <= policy.maxFileToUpdate)
    => /\ \A i \in EventIdx("discover") :
            LET o == objs[events[i].obj] IN
            (o.exists /\ Len(o.replacementsDico) >= 1)
                => \E w \in WriteEvents : events[w].id = events[i].id
       /\ \A p \in Ids :
            (\A i \in Discoveries(p) :
                Len(objs[events[i].obj].replacementsDico) = 0)
                => disk[p] = disk0[p]

\* C7: a link whose target file is missing: the target is in the index, it
\* is never given to getLinkedRpyx, never written, and trace reports the
\* link at the WARNING level.
C7_MissingTargetTolerated ==
    \A f \in 1..Len(objs) : \A i \in 1..Len(objs[f].linksDico) :
        LET l == objs[f].linksDico[i]
            t == objs[l.v]
        IN  ~Exists(disk, t.absPath) =>
              /\ getIndexedRhpyx(index, t.absPath) # None
              /\ \A e \in 1..Len(events) : events[e].id # lower(t.absPath)
              /\ \E n \in 1..Len(traced) :
                    /\ traced[n].file = f
                    /\ traced[n].link = rpyxToMatch(l.k)
                    /\ traced[n].level = "WARNING"

C7_Witness ==
    /\ Finished
    /\ \E f \in 1..Len(objs) : \E t \in LinkEnds(f) :
          /\ ~Exists(disk, objs[t].absPath)
          /\ lower(objs[t].absPath) \in Ids
    /\ Len(events) >= 2

\* C8: no file is written before every call of getLinkedRpyx of the run has
\* completed: no discovery follows a write.
C8_NoDiscoveryAfterWrite ==
    \A i \in EventIdx("write") : \A j \in EventIdx("discover") : j < i

C8_Witness ==
    /\ Finished
    /\ WriteEvents # {}
    /\ Cardinality(EventIdx("discover")) >= 3
    /\ Len(seeds) = 2

\* C9: on the same seed list and file set, the links, replacements and
\* files-with-replacements totals at the end of a run are the same for
\* every write cap.
C9_TalliesIgnoreCap ==
    (Finished /\ mode = "restored")
    => Tallies(policy) = Tallies(hist[1].policy)

C9_Witness ==
    /\ Finished /\ mode = "restored"
    /\ policy.maxFileToUpdate # hist[1].policy.maxFileToUpdate
    /\ policy.replacementCount >= 2
    /\ hist[1].wrote = {} /\ WriteEvents # {}

\* C10: when getLinkedRpyx cannot open a file, the run stops there: no
\* later discovery and no write at all in that run.
C10_ReadFailureAborts ==
    \A i \in EventIdx("discover") :
        ~events[i].ok => (i = Len(events) /\ EventIdx("write") = {}
                          /\ status = "ReadFailure")

C10_Witness ==
    /\ status = "ReadFailure"
    /\ Len(events) >= 2
    /\ Pending # {}
    /\ policy.maxFileToUpdate >= 1

\* C11: when RhpRpyx.doReplacements cannot write a file, the run stops there:
\* the failed write is the last event of the run, no file placed later in
\* the index is written (its content is still the one that was read), and
\* every file written before keeps its rewritten content.
C11_WriteFailureAborts ==
    /\ \A i \in EventIdx("write") :
          ~events[i].ok => (i = Len(events) /\ status = "WriteFailure")
    /\ status = "WriteFailure" =>
          \A k \in (applyIdx + 1)..Len(index) :
              LET o == objs[index[k].v] IN
              o.loaded => disk[lower(o.absPath)].content = o.fileContent
    /\ \A i \in WriteEvents :
          LET o == objs[events[i].obj] IN
          disk[events[i].id].content
              = NewContent(o.fileContent, o.replacementsDico)

\* a write fails after another file was written and before a pending one
C11_Witness ==
    /\ status = "WriteFailure"
    /\ WriteEvents # {}
    /\ \E k \in (applyIdx + 1)..Len(index) : HasWork(objs[index[k].v])
    /\ \A i \in WriteEvents : disk[events[i].id] # disk0[events[i].id]

\* C12: the files-written counter (updatedFileCount) equals the number of
\* files RhpRpyx.doReplacements has written in the run and never exceeds
\* maxFileToUpdate: a file skipped because the cap is reached is not counted.
C12_WrittenCounterExact ==
    /\ policy.updatedFileCount = Cardinality(WriteEvents)
    /\ policy.updatedFileCount <= policy.maxFileToUpdate

\* the spellings under which a path is looked up: as the instances were
\* built, and lower-cased
Spellings == {objs[f].absPath : f \in 1..Len(objs)} \cup Ids

\* C13: addIndexedRhpyx never replaces an entry: within a run the entries of
\* the index are never removed nor changed, a path that has an instance
\* keeps it under every letter case, and the index holds at most one
\* instance per lower-cased absolute path.
C13_IndexEntriesStable ==
    /\ [](\A i, j \in 1..Len(index) :
            lower(objs[index[i].v].absPath) = lower(objs[index[j].v].absPath)
                => i = j)
    /\ [](\A f \in Indexed : \A p \in Spellings :
            lower(p) = lower(objs[f].absPath) => getIndexedRhpyx(index, p) = f)
    /\ [][mode' = mode =>
            /\ Len(index') >= Len(index)
            /\ \A i \in 1..Len(index) : index'[i] = index[i]
            /\ \A p \in Spellings :
                  getIndexedRhpyx(index, p) # None
                      => getIndexedRhpyx(index', p) = getIndexedRhpyx(index, p)]_vars

\* an instance registered under an upper-case spelling, and a later
\* candidate for the same file, spelled otherwise, that was discarded
C13_Witness ==
    /\ Len(index) >= 2
    /\ \E f \in Indexed : \E g \in (1..Len(objs)) \ Indexed :
          /\ g > f
          /\ objs[f].absPath # lower(objs[f].absPath)
          /\ objs[g].absPath = lower(objs[f].absPath)
          /\ \E h \in 1..Len(objs) : \E i \in 1..Len(objs[h].linksDico) :
                objs[h].linksDico[i].v = f /\ ~isabs(objs[h].linksDico[i].k)

\* C14: every file only moves forward through unseen, registered, links
\* discovered, rewritten: getLinkedRpyx is called on a file that is in the
\* index and was not read before, a file is written after its links were
\* discovered, and no file is added to the index after getLinkedRpyx was
\* called on it.
C14_FileStatesForward ==
    [][mode' = mode =>
        /\ \A i \in (Len(events) + 1)..Len(events') :
              LET e == events'[i] IN
              /\ e.op = "discover" =>
                    /\ getIndexedRhpyx(index, e.id) # None
                    /\ Discoveries(e.id) = {}
              /\ e.op = "write" => Discoveries(e.id) # {}
        /\ \A k \in (Len(index) + 1)..Len(index') :
              \A i \in 1..Len(events') :
                  events'[i].op = "discover" => events'[i].id # index'[k].k
      ]_vars

\* C15: doReplacements of the strategy on a file that does not exist or has
\* no replacement changes nothing: no file is written, no write is
\* attempted, no counter of the strategy changes, the run goes on.
C15_NothingToDoChangesNothing ==
    [][(InApply /\ (~objs[index[applyIdx].v].exists
                      \/ Len(objs[index[applyIdx].v].replacementsDico) = 0))
        => /\ disk' = disk
           /\ policy' = policy
           /\ events' = events
           /\ status' = status
           /\ applyIdx' = applyIdx + 1]_vars

\* the loop over the index has passed a missing file and an existing file
\* without replacement, and has written another file
C15_Witness ==
    /\ Finished
    /\ WriteEvents # {}
    /\ \E f, g \in Indexed :
          /\ ~objs[f].exists
          /\ objs[g].exists /\ objs[g].loaded
          /\ Len(objs[g].replacementsDico) = 0
    /\ policy.updatedFileCount < Len(index)

\* the files with replacements among the first k entries of the index
PendingUpTo(k) ==
    {i \in 1..k : objs[index[i].v].exists
                    /\ Len(objs[index[i].v].replacementsDico) # 0}

\* C16: a file with replacements that the loop over the index passed
\* without writing it still holds the content that was read; and in the
\* following launch on the same seeds, that file gets the same replacements
\* and, where the cap leaves room for it, is rewritten.
C16_SkippedFilePickedUpLater ==
    /\ \A k \in 1..Len(index) :
          LET o == objs[index[k].v] IN
          (k \in PendingUpTo(k) /\ k < applyIdx
              /\ \A w \in WriteEvents : events[w].id # index[k].k)
          => disk[index[k].k].content = o.fileContent
    /\ (Finished /\ mode = "again") =>
          \A s \in hist[1].skipped :
              \E k \in 1..Len(index) :
                  LET o == objs[index[k].v] IN
                  /\ index[k].k = s.id
                  /\ o.replacementsDico = s.repl
                  /\ Cardinality(PendingUpTo(k)) <= policy.maxFileToUpdate
                        => /\ \E w \in WriteEvents : events[w].id = s.id
                           /\ disk[s.id].content =
                                 NewContent(o.fileContent, s.repl)

\* a launch wrote one file and skipped another; the next launch wrote it
C16_Witness ==
    /\ Finished /\ mode = "again"
    /\ hist[1].wrote # {}
    /\ \E s \in hist[1].skipped : \E w \in WriteEvents :
          /\ events[w].id = s.id
          /\ disk[s.id].content # disk0[s.id].content

\* C17: for every link of a file whose reference is an absolute path, the
\* replacement token, decoded by matchToRpyx and resolved from the file by
\* joinRelativePath, is the normalized path of the original reference; a
\* link whose reference is relative has no replacement.
C17_ReplacementKeepsTarget ==
    \A f \in 1..Len(objs) : \A i \in 1..Len(objs[f].linksDico) :
        LET o      == objs[f]
            rhpLink == o.linksDico[i].k
            oldStr  == rpyxToMatch(rhpLink)
        IN  o.loaded =>
              IF isabs(rhpLink)
              THEN /\ DictHas(o.replacementsDico, oldStr)
                   /\ joinRelativePath(o.absPath,
                          matchToRpyx(DictGet(o.replacementsDico, oldStr)))
                        = abspath(rhpLink)
              ELSE ~DictHas(o.replacementsDico, oldStr)

\* the files the tokens of file q (a lower-cased path) refer to
Targets(q) ==
    LET links == getLinkedRpyx(q, disk[q].content)
    IN  {lower(links[i].v) : i \in 1..Len(links)}

\* the existing files reached from the set S in at most n references
RECURSIVE ReachFrom(_, _)
ReachFrom(S, n) ==
    IF n = 0 THEN S
    ELSE ReachFrom(S \cup {t \in Ids : /\ disk[t].exists
                                        /\ \E q \in S : t \in Targets(q)},
                   n - 1)

Reachable ==
    ReachFrom({lower(seeds[i]) : i \in {j \in 1..Len(seeds) :
                                          Exists(disk, seeds[j])}},
              Cardinality(Ids))

\* the loop over the seeds is over and no file has been written yet
TraversalEnded ==
    /\ status = "running" /\ stack = <<>> /\ seedIdx > Len(seeds)
    /\ applyIdx = 1

\* C18: with maxDepth -1 and no IOError, when the loop over the seeds ends,
\* getLinkedRpyx and prepareAndCountReplacements have been applied to every
\* existing file that a chain of references between existing files joins to
\* an existing seed, and no existing file of the index is left unread.
C18_ReachableFilesDiscovered ==
    (TraversalEnded /\ maxDepth = -1) =>
        /\ \A p \in Reachable :
              \E i \in Discoveries(p) :
                  events[i].ok /\ objs[events[i].obj].loaded
        /\ \A f \in Indexed : objs[f].exists => objs[f].loaded

\* the only seed is b, and x is reached through a
C18_Witness ==
    /\ TraversalEnded /\ maxDepth = -1
    /\ seeds = <<PB>>
    /\ PX \in Reachable /\ PX \notin Targets(PB)
    /\ Discoveries(PX) # {}

\* C19: every instance of the index that has replacements has had its
\* content read by getLinkedRpyx on that same instance, so that
\* RhpRpyx.doReplacements never runs without self.fileContent.
C19_ReplacementsImplyContent ==
    /\ \A f \in Indexed :
          Len(objs[f].replacementsDico) # 0 =>
              /\ objs[f].loaded
              /\ \E i \in EventIdx("discover") :
                    events[i].obj = f /\ events[i].ok
    /\ \A i \in EventIdx("write") : objs[events[i].obj].loaded
    /\ status # "AttributeError"

\* the loop over the index has written a file and has passed an existing
\* file that holds references but was never read (maxDepth was exhausted)
C19_Witness ==
    /\ Finished
    /\ WriteEvents # {}
    /\ \E f \in Indexed :
          /\ objs[f].exists /\ ~objs[f].loaded
          /\ disk[lower(objs[f].absPath)].content # <<>>
          /\ \A i \in 1..Len(events) : events[i].id # lower(objs[f].absPath)

\* the instance on which getLinkedRpyx was first called for the path p
FirstRead(p) ==
    objs[events[CHOOSE i \in Discoveries(p) :
                    \A j \in Discoveries(p) : i <= j].obj]

\* the sum over the paths of S of the sizes of the link maps (what =
\* "links") or of the replacement maps of the instances first read
RECURSIVE SumOver(_, _)
SumOver(S, what) ==
    IF S = {} THEN 0
    ELSE LET p == CHOOSE x \in S : TRUE
             n == IF what = "links" THEN Len(FirstRead(p).linksDico)
                  ELSE Len(FirstRead(p).replacementsDico)
         IN  n + SumOver(S \ {p}, what)

Discovered == {p \in Ids : Discoveries(p) # {}}

\* C20: at the end of a run no file is tallied twice: linkCount is the sum
\* of the sizes of the link maps of the distinct files read,
\* replacementCount the sum of the sizes of their replacement maps, and
\* fileUpdatedCount the number of distinct files with a replacement.
C20_NoFileTalliedTwice ==
    Finished =>
        /\ policy.linkCount =
              SumOver(Discovered, "links")
        /\ policy.replacementCount =
              SumOver(Discovered, "replacements")
        /\ policy.fileUpdatedCount =
              Cardinality({p \in Discovered :
                              Len(FirstRead(p).replacementsDico) >= 1})

====
